---- MODULE Spec2Model ----
(***************************************************************************)
(* Study-assistant application: content store (ContentProvider), model     *)
(* client (OllamaProvider), dashboard generation handlers, home-page       *)
(* ingestion handlers and the PDF text extraction utility (processPDFFile).*)
(*                                                                         *)
(* React state is modelled as the committed state after each handler or    *)
(* continuation has run (state updates of one synchronous run are batched  *)
(* and applied in call order).  A handler that awaits is split at its      *)
(* awaits; the values it closed over when it started are kept in the       *)
(* record of the pending operation.                                        *)
(*                                                                         *)
(* Optional values (T | null | undefined) are sequences of length <= 1.    *)
(***************************************************************************)
EXTENDS Integers, Sequences, FiniteSets, TLC

VARIABLES
    contents,            \* ContentProvider: StudyContent[]
    currentContent,      \* ContentProvider: StudyContent | null
    now,                 \* the millisecond clock read by Date.now()
    isDeployed,          \* window.location.hostname is not local
    isConnected,         \* OllamaProvider
    checks,              \* some checkConnection call awaits its fetch
    models,              \* OllamaProvider: the names of the listed models
    loads,               \* loadModels calls awaiting their fetch / their response body
    server,              \* the texts the model server may answer with, per kind of request
    ollamaUrl,           \* OllamaProvider: the base URL of the model server
    route,               \* "home" | "dashboard"
    navTimers,           \* some setTimeout(() => navigate('/dashboard'), 1000) is pending
    isGenerating,        \* StudyDashboard (state of the mounted instance)
    generationProgress,  \* StudyDashboard
    gens,                \* generation handlers suspended at an await
    isProcessing,        \* HomePage
    progress,            \* HomePage
    pdfAvailable,        \* HomePage
    modal,               \* OllamaConfigModal: its state and its suspended save handlers
    workerOk,            \* pdfjsLib.GlobalWorkerOptions.workerSrc is set
    pdfCalls,            \* processPDFFile calls (timer, task, race)
    lastOp               \* what the last step did, for the operations the properties watch

storeVars == <<contents, currentContent>>
ollamaVars == <<isDeployed, isConnected, checks, models, loads, server, ollamaUrl>>
dashVars == <<isGenerating, generationProgress, gens>>
homeVars == <<isProcessing, progress, pdfAvailable, modal>>
pdfVars == <<workerOk, pdfCalls>>
vars == <<contents, currentContent, now, isDeployed, isConnected, checks, models,
          loads, server, ollamaUrl, route, navTimers, isGenerating, generationProgress, gens,
          isProcessing, progress, pdfAvailable, modal, workerOk, pdfCalls, lastOp>>

----------------------------------------------------------------------------
(* Bounds of the model *)

MaxItems == 2        \* items ever held by the store at once
MaxClock == 2        \* clock values 1..MaxClock
MaxGens == 1         \* generation handlers in flight
MaxPdfCalls == 1     \* processPDFFile calls in flight (home page)
MaxSaves == 1        \* saveConfiguration handlers in flight
MaxDocPages == 2     \* pdf.numPages of a loaded document
MaxPagesOpt == 1     \* options.maxPages given by a library caller
MaxFragments == 1    \* text items of one page

----------------------------------------------------------------------------
(* lastOp after a step whose outcome no property watches *)
Step == [op |-> "step"]

----------------------------------------------------------------------------
(* Optional values *)

None == <<>>
Some(x) == <<x>>
IsSome(o) == Len(o) > 0
Get(o) == o[1]

Min(a, b) == IF a <= b THEN a ELSE b

(* Number.prototype.toString / template-literal conversion of a number *)
NumToString(n) == <<"str", n>>

(* { ...base, ...updates } on records that carry every field *)
Merge(base, updates) ==
    [f \in DOMAIN base |-> IF f \in DOMAIN updates THEN updates[f] ELSE base[f]]

----------------------------------------------------------------------------
(* ContentProvider: the content store *)

Store(cs, cur) == [contents |-> cs, currentContent |-> cur]

(* newContent of addContent: the caller's fields plus id and createdAt *)
NewContent(content, idClock, createdClock) ==
    [id |-> NumToString(idClock), title |-> content.title, type |-> content.type,
     content |-> content.content, summary |-> None, flashcards |-> None,
     quiz |-> None, createdAt |-> createdClock]

(* addContent putting the new item first *)
addContent_prepends(st, content, idClock, createdClock) ==
    LET newContent == NewContent(content, idClock, createdClock)
    IN  Store(<<newContent>> \o st.contents, Some(newContent))

addContent(st, content, idClock, createdClock) ==
    LET newContent == NewContent(content, idClock, createdClock)
    IN  Store(Append(st.contents, newContent), Some(newContent))

(* closureCurrent is the currentContent the function closed over *)
updateContent(st, closureCurrent, id, updates) ==
    Store([i \in 1..Len(st.contents) |->
              IF st.contents[i].id = id THEN Merge(st.contents[i], updates)
                                        ELSE st.contents[i]],
          IF IsSome(closureCurrent) /\ Get(closureCurrent).id = id
          THEN (IF IsSome(st.currentContent)
                THEN Some(Merge(Get(st.currentContent), updates))
                ELSE None)
          ELSE st.currentContent)

KeepsId(id, c) == c.id # id

(* deleteContent without the reset of currentContent *)
deleteContent_keepsCurrent(st, closureCurrent, id) ==
    Store(SelectSeq(st.contents, LAMBDA c : KeepsId(id, c)), st.currentContent)

deleteContent(st, closureCurrent, id) ==
    Store(SelectSeq(st.contents, LAMBDA c : KeepsId(id, c)),
          IF IsSome(closureCurrent) /\ Get(closureCurrent).id = id
          THEN None
          ELSE st.currentContent)

TheStore == Store(contents, currentContent)

SetStore(st) ==
    /\ contents' = st.contents
    /\ currentContent' = st.currentContent

----------------------------------------------------------------------------
(* Routing and mounting.  StudyDashboard's effect sends the user home when *)
(* the collection is empty; a page's local state starts afresh on mount.   *)

RouteAfter(r, cs) == IF r = "dashboard" /\ Len(cs) = 0 THEN "home" ELSE r

(* operations started by a page instance that is no longer mounted *)
Orphan(ops) == [i \in 1..Len(ops) |-> [ops[i] EXCEPT !.live = FALSE]]

(* the server URL the provider starts with, and the URLs a user types *)
DefaultUrl == "http://localhost:11434"

Urls == {DefaultUrl, "http://other:11434"}

(* OllamaConfigModal as mounted by HomePage: closed, its field holding the  *)
(* provider's URL, nothing tested, no test and no save under way           *)
ClosedModal(url) ==
    [open |-> FALSE, tempUrl |-> url, connectionStatus |-> "idle", testing |-> FALSE,
     saves |-> <<>>]

----------------------------------------------------------------------------
(* Strings are sequences of tokens.  "Q:", "A:", "Correct:", "correct:",   *)
(* "Explanation:", "A)".."D)" and the letters stand for those characters, *)
(* " " and "\n" for one space and one line break, "|" for a bar, and "w",  *)
(* "v" for words without any of the markers or capital letters A-D.        *)

RECURSIVE IndexOf(_, _, _)
(* String.prototype.indexOf from position i (1-based); 0 when absent *)
IndexOf(s, sub, i) ==
    IF i + Len(sub) - 1 > Len(s) THEN 0
    ELSE IF SubSeq(s, i, i + Len(sub) - 1) = sub THEN i
    ELSE IndexOf(s, sub, i + 1)

Includes(s, sub) == IndexOf(s, sub, 1) # 0

RECURSIVE Split(_, _)
(* String.prototype.split with a non-empty separator *)
Split(s, sep) ==
    LET k == IndexOf(s, sep, 1)
    IN  IF k = 0 THEN <<s>>
        ELSE <<SubSeq(s, 1, k - 1)>> \o Split(SubSeq(s, k + Len(sep), Len(s)), sep)

IsSpace(t) == t \in {" ", "\n"}

RECURSIVE TrimStart(_)
TrimStart(s) ==
    IF Len(s) > 0 /\ IsSpace(Head(s)) THEN TrimStart(Tail(s)) ELSE s

RECURSIVE TrimEnd(_)
TrimEnd(s) ==
    IF Len(s) > 0 /\ IsSpace(s[Len(s)]) THEN TrimEnd(SubSeq(s, 1, Len(s) - 1)) ELSE s

(* String.prototype.trim *)
Trim(s) == TrimEnd(TrimStart(s))

(* String.prototype.replace(sub, '') : the first occurrence only *)
RemoveFirst(s, sub) ==
    LET k == IndexOf(s, sub, 1)
    IN  IF k = 0 THEN s
        ELSE SubSeq(s, 1, k - 1) \o SubSeq(s, k + Len(sub), Len(s))

QMark == <<"Q:">>
AMark == <<"A:">>
QPrefix == <<"Q:", " ">>
ASeparator == <<" ", "|", " ", "A:", " ">>

IsFlashcardLine(line) == Includes(line, QMark) /\ Includes(line, AMark)

(* the card built from one kept line; index is its position among kept lines *)
FlashcardOf(id, line, index) ==
    LET parts == Split(line, ASeparator)
        front == parts[1]
        back  == IF Len(parts) >= 2 THEN Trim(parts[2]) ELSE <<>>
    IN  [id |-> <<id, "-flashcard-", index>>,
         front |-> Trim(RemoveFirst(front, QPrefix)),
         back |-> back,
         difficulty |-> "medium"]

(* a filter that looks at the front only *)
IsFullCard_frontOnly(card) == Len(card.front) > 0

IsFullCard(card) == Len(card.front) > 0 /\ Len(card.back) > 0

(* generateFlashcards: split, filter, map, filter *)
ParseFlashcards(id, text) ==
    LET kept  == SelectSeq(Split(text, <<"\n">>), IsFlashcardLine)
        cards == [i \in 1..Len(kept) |-> FlashcardOf(id, kept[i], i - 1)]
    IN  SelectSeq(cards, IsFullCard)

IsNotBlank(str) == Len(Trim(str)) > 0

QuizBlockLimit == 5
QuizMinLines == 6

(* the capital letter A-D a token holds first, if any *)
CapitalOf(t) ==
    CASE t \in {"A", "A)", "A:"} -> Some("A")
      [] t \in {"B", "B)"} -> Some("B")
      [] t \in {"C", "C)", "Correct:"} -> Some("C")
      [] t \in {"D", "D)"} -> Some("D")
      [] OTHER -> None

RECURSIVE FirstCapital(_)
(* line.match(/[A-D]/)?.[0] *)
FirstCapital(line) ==
    IF Len(line) = 0 THEN None
    ELSE IF IsSome(CapitalOf(Head(line))) THEN CapitalOf(Head(line))
    ELSE FirstCapital(Tail(line))

LetterIndex(letter) ==
    CASE letter = "A" -> 0 [] letter = "B" -> 1 [] letter = "C" -> 2 [] letter = "D" -> 3

(* line.replace(/^[A-D]\)\s*/, '') *)
StripOptionPrefix(line) ==
    IF Len(line) > 0 /\ Head(line) \in {"A)", "B)", "C)", "D)"}
    THEN TrimStart(Tail(line))
    ELSE line

HasCorrectMarker(line) == \E i \in 1..Len(line) : line[i] \in {"Correct:", "correct:"}
HasExplanationMarker(line) ==
    \E i \in 1..Len(line) : line[i] \in {"Explanation:", "explanation:"}

(* Array.prototype.find, given the elements that pass its test *)
First(hits) == IF Len(hits) = 0 THEN None ELSE Some(hits[1])

(* line.replace(/explanation:\s*/i, '') *)
StripExplanationMarker(line) ==
    LET k == CHOOSE i \in 1..Len(line) :
                 /\ line[i] \in {"Explanation:", "explanation:"}
                 /\ \A j \in 1..(i - 1) : line[j] \notin {"Explanation:", "explanation:"}
    IN  SubSeq(line, 1, k - 1) \o TrimStart(SubSeq(line, k + 1, Len(line)))

(* lines.slice(1, 5).map(...) *)
QuizOptions(lines) ==
    [k \in 1..Min(4, Len(lines) - 1) |-> Trim(StripOptionPrefix(lines[k + 1]))]

(* a question whose answer is indexOf(undefined) when no letter is found *)
QuizQuestionOf_noDefault(id, lines, i) ==
    LET correctLine == First(SelectSeq(lines, HasCorrectMarker))
        correctLetter == IF IsSome(correctLine) THEN FirstCapital(Get(correctLine)) ELSE None
        explLine == First(SelectSeq(lines, HasExplanationMarker))
    IN  [id |-> <<id, "-quiz-", i>>,
         question |-> Trim(lines[1]),
         options |-> QuizOptions(lines),
         correctAnswer |-> IF IsSome(correctLetter) THEN LetterIndex(Get(correctLetter)) ELSE -1,
         explanation |-> IF IsSome(explLine) THEN StripExplanationMarker(Get(explLine)) ELSE <<>>]

QuizQuestionOf(id, lines, i) ==
    LET correctLine == First(SelectSeq(lines, HasCorrectMarker))
        correctLetter == IF IsSome(correctLine) THEN FirstCapital(Get(correctLine)) ELSE None
        explLine == First(SelectSeq(lines, HasExplanationMarker))
    IN  [id |-> <<id, "-quiz-", i>>,
         question |-> Trim(lines[1]),
         options |-> QuizOptions(lines),
         correctAnswer |-> IF IsSome(correctLetter) THEN LetterIndex(Get(correctLetter)) ELSE 0,
         explanation |-> IF IsSome(explLine) THEN StripExplanationMarker(Get(explLine)) ELSE <<>>]

(* the lines of a block, blank ones included *)
BlockLines_all(block) == Split(block, <<"\n">>)

BlockLines(block) == SelectSeq(Split(block, <<"\n">>), IsNotBlank)

RECURSIVE QuizFrom_unbounded(_, _, _)
(* the loop without its limit of five blocks *)
QuizFrom_unbounded(id, blocks, i) ==
    IF ~(i < Len(blocks)) THEN <<>>
    ELSE LET lines == BlockLines(blocks[i + 1])
         IN  (IF Len(lines) >= QuizMinLines THEN <<QuizQuestionOf(id, lines, i)>> ELSE <<>>)
             \o QuizFrom_unbounded(id, blocks, i + 1)

RECURSIVE QuizFrom(_, _, _)
(* the loop of generateQuiz over questionBlocks, from index i (0-based) *)
QuizFrom(id, blocks, i) ==
    IF ~(i < Len(blocks) /\ i < QuizBlockLimit) THEN <<>>
    ELSE LET lines == BlockLines(blocks[i + 1])
         IN  (IF Len(lines) >= QuizMinLines THEN <<QuizQuestionOf(id, lines, i)>> ELSE <<>>)
             \o QuizFrom(id, blocks, i + 1)

ParseQuiz(id, text) == QuizFrom(id, SelectSeq(Split(text, QMark), IsNotBlank), 0)

----------------------------------------------------------------------------
(* What the user and the model server can supply *)

Line(front, back) == <<"Q:", " ">> \o front \o ASeparator \o back
NL == <<"\n">>

TextInputs == {<<"w">>, <<" ">>}

(* a URL: what precedes the id, and the characters that follow it *)
UrlLeads == {"youtube.com/watch?v=", "youtu.be/", "youtube.com/embed/", "example.com/", " "}
UrlTails == {<<>>, <<"x">>, <<"&">>, <<"x", "&">>, <<"&", "x">>}
YouTubeUrls == [lead : UrlLeads, tail : UrlTails]

SummaryTexts == {<<>>, <<"w">>}
FlashcardTexts == {Line(<<"w">>, <<"w">>) \o NL \o <<"Q:", " ", "w">>}
QuizBlock(question, letter) ==
    <<"Q:", " ">> \o question \o NL
    \o <<"A)", " ", "w">> \o NL \o <<"B)", " ", "w">> \o NL
    \o <<"C)", " ", "w">> \o NL \o <<"D)", " ", "w">> \o NL
    \o <<"Correct:", " ", letter>> \o NL
    \o <<"Explanation:", " ", "w">> \o NL
QuizTexts == {QuizBlock(<<"w">>, "B") \o <<"Q:", " ", "w">> \o NL \o <<"A)", " ", "w">>}

(* the fixed texts of demonstration mode *)
DemoSummary == <<"w">>
DemoFlashcards ==
    Line(<<"w">>, <<"w">>) \o NL \o Line(<<"w">>, <<"w">>) \o NL
    \o Line(<<"w">>, <<"w">>) \o NL \o Line(<<"w">>, <<"w">>)
DemoQuiz == QuizBlock(<<"w">>, "B") \o NL \o QuizBlock(<<"w">>, "C")

GenKinds == {"summary", "flashcards", "quiz"}

(* a server that answers with few texts *)
SmallServer == [summary |-> SummaryTexts, flashcards |-> FlashcardTexts, quiz |-> QuizTexts]

(* data.response of a generate request *)
ResponseTexts(kind) == server[kind]

(* a demonstration mode that answers with a text of the small server *)
DemoText_server(kind) == CHOOSE text \in SmallServer[kind] : TRUE

DemoText(kind) ==
    CASE kind = "summary" -> DemoSummary
      [] kind = "flashcards" -> DemoFlashcards
      [] kind = "quiz" -> DemoQuiz

(* lines a model may write when asked for flashcards: with or without the  *)
(* blank after "Q:", with the separator, with "A:" but no bar, with no     *)
(* answer marker, with an empty side, with a second separator              *)
FlashcardLines ==
    LET prefixes == {<<"Q:", " ">>, <<"Q:">>}
        fronts == {<<"w">>, <<>>}
        middles == {ASeparator, <<" ", "A:", " ">>, <<>>}
        backs == {<<"v">>, <<>>, <<"v">> \o ASeparator \o <<"u">>}
    IN  {p \o f \o m \o b : p \in prefixes, f \in fronts, m \in middles, b \in backs}
            \cup {Line(<<"w">>, <<"w">>)}

(* responses of one line or two *)
RichFlashcardTexts ==
    LET seconds == {Line(<<"w">>, <<"w">>), Line(<<"v">>, <<"w">>), <<"Q:", " ", "w">>}
    IN  FlashcardLines \cup {l1 \o NL \o l2 : l1 \in FlashcardLines, l2 \in seconds}

(* blocks a model may write when asked for a quiz: in the prompt's format  *)
(* with each letter, with the answer marker in lower case, without the     *)
(* answer line, without any line after the options, cut short              *)
QuizBlocks ==
    LET stem == <<"Q:", " ", "w">> \o NL
        options == <<"A)", " ", "w">> \o NL \o <<"B)", " ", "v">> \o NL
                   \o <<"C)", " ", "w">> \o NL \o <<"D)", " ", "v">> \o NL
    IN  {QuizBlock(<<"w">>, letter) : letter \in {"A", "B", "C", "D"}}
            \cup {stem \o options \o <<"correct:", " ", "B">> \o NL
                      \o <<"Explanation:", " ", "w">> \o NL,
                  stem \o options \o <<"Explanation:", " ", "w">> \o NL,
                  stem \o options \o <<"w">> \o NL,
                  stem \o options,
                  stem \o <<"A)", " ", "w">> \o NL}

(* responses of one block, of two, and of six and seven *)
RichQuizTexts ==
    LET full == QuizBlock(<<"w">>, "C")
        cut == <<"Q:", " ", "w">> \o NL
    IN  QuizBlocks \cup {b1 \o b2 : b1 \in QuizBlocks, b2 \in QuizBlocks}
            \cup {full \o full \o full \o full \o full \o full,
                  cut \o full \o full \o full \o full \o full \o full}

(* servers that answer one kind of request with a text of their own *)
RichServers ==
    {[SmallServer EXCEPT !.flashcards = {text}] : text \in RichFlashcardTexts}
        \cup {[SmallServer EXCEPT !.quiz = {text}] : text \in RichQuizTexts}

----------------------------------------------------------------------------
(* HomePage.extractVideoId *)

YouTubeLeads == {"youtube.com/watch?v=", "youtu.be/", "youtube.com/embed/"}

RECURSIVE IdRun(_)
(* the longest run of characters that are none of & \n ? # *)
IdRun(tail) ==
    IF Len(tail) = 0 \/ Head(tail) \in {"&", "\n", "?", "#"} THEN <<>>
    ELSE <<Head(tail)>> \o IdRun(Tail(tail))

extractVideoId(url) ==
    IF url.lead \in YouTubeLeads /\ Len(IdRun(url.tail)) > 0
    THEN Some(IdRun(url.tail))
    ELSE None

(* youtubeUrl.trim() is empty *)
UrlIsBlank(url) == url.lead = " " /\ Len(Trim(url.tail)) = 0

----------------------------------------------------------------------------
(* Page changes.  target is the route asked for; cs the collection after   *)
(* the step.  The page that is left unmounts (its pending operations can   *)
(* no longer set its state), the page that is entered mounts afresh;       *)
(* HomePage's mount effects call checkConnection and set pdfAvailable.     *)

PageChange(target, cs) ==
    LET dest == RouteAfter(target, cs)
        moved == target # route \/ dest # route
        mountsHome == moved /\ dest = "home"
    IN  /\ route' = dest
        /\ IF moved /\ route = "dashboard"
           THEN /\ gens' = Orphan(gens)
                /\ isGenerating' = FALSE
                /\ generationProgress' = 0
           ELSE UNCHANGED dashVars
        /\ IF moved /\ route = "home"
           THEN /\ pdfCalls' = Orphan(pdfCalls)
                /\ isProcessing' = FALSE
                /\ progress' = 0
           ELSE UNCHANGED <<pdfCalls, isProcessing, progress>>
        /\ pdfAvailable' = IF mountsHome THEN workerOk ELSE pdfAvailable
        /\ IF mountsHome
           THEN IF isDeployed
                THEN isConnected' = FALSE /\ checks' = checks
                ELSE checks' = TRUE /\ isConnected' = isConnected
           ELSE UNCHANGED <<isConnected, checks>>
        /\ modal' = IF moved /\ route = "home" THEN [ClosedModal(ollamaUrl) EXCEPT !.saves = Orphan(modal.saves)] ELSE modal
        /\ UNCHANGED <<isDeployed, models, loads, server, ollamaUrl, workerOk>>

Tick ==
    /\ now < MaxClock
    /\ now' = now + 1
    /\ lastOp' = Step
    /\ UNCHANGED <<storeVars, ollamaVars, route, navTimers, dashVars, homeVars, pdfVars>>

----------------------------------------------------------------------------
(* OllamaProvider.checkConnection *)

FetchOutcomes == {"ok", "httpError", "networkError", "abort"}

(* a probe that lets the rejection of its fetch through *)
CheckConnectionResult_rethrows(outcome) ==
    [rejected |-> (outcome \in {"networkError", "abort"}), returned |-> (outcome = "ok")]

(* what checkConnection returns for the way its fetch ended *)
CheckConnectionResult(outcome) == [rejected |-> FALSE, returned |-> (outcome = "ok")]

CheckLabel(outcome, result) ==
    [op |-> "checkConnection", outcome |-> outcome, rejected |-> result.rejected,
     returned |-> result.returned]

(* HomePage: the mount effect run again, or the Retry Connection button *)
CheckConnection ==
    /\ route = "home"
    /\ IF isDeployed
       THEN /\ isConnected' = FALSE
            /\ checks' = checks
            /\ lastOp' = CheckLabel("skipped", [rejected |-> FALSE, returned |-> FALSE])
       ELSE /\ checks' = TRUE
            /\ isConnected' = isConnected
            /\ lastOp' = Step
    /\ UNCHANGED <<storeVars, now, isDeployed, models, loads, server, ollamaUrl, route, navTimers,
                   dashVars, homeVars, pdfVars>>

(* one pending call settles; others may still be pending *)
CheckConnectionSettles ==
    /\ checks
    /\ \E outcome \in FetchOutcomes :
          LET result == CheckConnectionResult(outcome)
          IN  /\ isConnected' = result.returned
              /\ lastOp' = CheckLabel(outcome, result)
    /\ checks' \in BOOLEAN
    /\ UNCHANGED <<storeVars, now, isDeployed, models, loads, server, ollamaUrl, route, navTimers,
                   dashVars, homeVars, pdfVars>>

----------------------------------------------------------------------------
(* OllamaProvider.loadModels *)

NoLoads == [fetch |-> FALSE, json |-> FALSE]

(* data.models of the tags response: absent or empty, or a list *)
TagsBodies == {<<>>, <<"m">>}

(* isConnected and models as loadModels leaves them; before: the list held so far *)
LoadModelsCommit(before, outcome, body) ==
    IF outcome = "ok" THEN [isConnected |-> TRUE, models |-> body]
    ELSE IF outcome = "httpError" THEN [isConnected |-> FALSE, models |-> before]
    ELSE [isConnected |-> FALSE, models |-> <<>>]

LoadLabel(outcome) == [op |-> "loadModels", outcome |-> outcome]

(* a call by a consumer of the context: HomePage's effect and its Retry     *)
(* button, the configuration dialog                                        *)
LoadModels ==
    /\ route = "home"
    /\ IF isDeployed
       THEN /\ isConnected' = FALSE
            /\ models' = <<>>
            /\ loads' = loads
            /\ lastOp' = LoadLabel("skipped")
       ELSE /\ loads' = [loads EXCEPT !.fetch = TRUE]
            /\ lastOp' = Step
            /\ UNCHANGED <<isConnected, models>>
    /\ UNCHANGED <<storeVars, now, isDeployed, checks, server, ollamaUrl, route, navTimers,
                   dashVars, homeVars, pdfVars>>

(* the fetch of one pending call settles *)
LoadModelsFetchSettles ==
    /\ loads.fetch
    /\ \E outcome \in FetchOutcomes, more \in BOOLEAN :
          IF outcome = "ok"
          THEN /\ loads' = [fetch |-> more, json |-> TRUE]
               /\ lastOp' = Step
               /\ UNCHANGED <<isConnected, models>>
          ELSE LET after == LoadModelsCommit(models, outcome, <<>>)
               IN  /\ loads' = [loads EXCEPT !.fetch = more]
                   /\ isConnected' = after.isConnected
                   /\ models' = after.models
                   /\ lastOp' = LoadLabel(outcome)
    /\ UNCHANGED <<storeVars, now, isDeployed, checks, server, ollamaUrl, route, navTimers,
                   dashVars, homeVars, pdfVars>>

(* response.json() of one pending call settles *)
LoadModelsBodySettles ==
    /\ loads.json
    /\ \E more \in BOOLEAN :
          /\ loads' = [loads EXCEPT !.json = more]
          /\ \/ \E body \in TagsBodies :
                   LET after == LoadModelsCommit(models, "ok", body)
                   IN  /\ isConnected' = after.isConnected
                       /\ models' = after.models
                       /\ lastOp' = LoadLabel("ok")
             \/ LET after == LoadModelsCommit(models, "invalidJson", <<>>)
                IN  /\ isConnected' = after.isConnected
                    /\ models' = after.models
                    /\ lastOp' = LoadLabel("invalidJson")
    /\ UNCHANGED <<storeVars, now, isDeployed, checks, server, ollamaUrl, route, navTimers,
                   dashVars, homeVars, pdfVars>>

----------------------------------------------------------------------------
(* OllamaConfigModal.  A handler uses the checkConnection and loadModels   *)
(* of the render it was created in, and those read that render's ollamaUrl. *)

(* the Configure button, Cancel and the dialog's own close control; the    *)
(* effect on [open, ollamaUrl] refills the field on opening                 *)
OpenConfigModal ==
    /\ route = "home"
    /\ modal' = IF modal.open
                THEN [modal EXCEPT !.open = FALSE]
                ELSE [modal EXCEPT !.open = TRUE, !.tempUrl = ollamaUrl,
                                   !.connectionStatus = "idle"]
    /\ lastOp' = Step
    /\ UNCHANGED <<storeVars, now, ollamaVars, route, navTimers, dashVars, isProcessing,
                   progress, pdfAvailable, pdfVars>>

(* typing in the URL field; Reset to Defaults is typing the default URL    *)
EditUrl ==
    /\ route = "home"
    /\ modal.open
    /\ \E url \in Urls :
          modal' = [modal EXCEPT !.tempUrl = url, !.connectionStatus = "idle"]
    /\ lastOp' = Step
    /\ UNCHANGED <<storeVars, now, ollamaVars, route, navTimers, dashVars, isProcessing,
                   progress, pdfAvailable, pdfVars>>

(* Test Connection: a fetch of tempUrl's /api/tags, up to its await *)
TestConnection ==
    /\ route = "home"
    /\ modal.open
    /\ ~modal.testing
    /\ modal' = [modal EXCEPT !.testing = TRUE, !.connectionStatus = "testing"]
    /\ lastOp' = Step
    /\ UNCHANGED <<storeVars, now, ollamaVars, route, navTimers, dashVars, isProcessing,
                   progress, pdfAvailable, pdfVars>>

(* the test's fetch settles (its own 5 s abort included) *)
TestConnectionSettles ==
    /\ modal.testing
    /\ \E outcome \in FetchOutcomes :
          modal' = [modal EXCEPT !.testing = FALSE,
                                 !.connectionStatus = IF outcome = "ok" THEN "success"
                                                      ELSE "error"]
    /\ lastOp' = Step
    /\ UNCHANGED <<storeVars, now, ollamaVars, route, navTimers, dashVars, isProcessing,
                   progress, pdfAvailable, pdfVars>>

(* what saveConfiguration did: the URL it saved and the URL of the request *)
(* it issued                                                               *)
SaveLabel(request, saved, target) ==
    [op |-> "saveConfiguration", request |-> request, saved |-> saved, target |-> target]

(* Save Configuration, up to its first await.  setOllamaUrl takes effect   *)
(* in the next render, where the effect on [open, ollamaUrl] runs again;   *)
(* checkConnection is the one of this render.                              *)
SaveConfiguration ==
    /\ route = "home"
    /\ modal.open
    /\ Len(modal.saves) < MaxSaves
    /\ IF modal.connectionStatus # "success"
       THEN /\ lastOp' = SaveLabel("refused", ollamaUrl, ollamaUrl)
            /\ UNCHANGED <<ollamaUrl, modal, isConnected>>
       ELSE /\ ollamaUrl' = modal.tempUrl
            /\ IF isDeployed
               THEN /\ isConnected' = FALSE
                    /\ modal' = IF modal.tempUrl # ollamaUrl
                                THEN [modal EXCEPT !.connectionStatus = "idle"]
                                ELSE modal
                    /\ lastOp' = SaveLabel("skipped", modal.tempUrl, ollamaUrl)
               ELSE /\ isConnected' = isConnected
                    /\ modal' = [modal EXCEPT
                           !.connectionStatus = IF modal.tempUrl # ollamaUrl THEN "idle" ELSE @,
                           !.saves = Append(@, [pc |-> "check", live |-> TRUE,
                                                saved |-> modal.tempUrl, url |-> ollamaUrl])]
                    /\ lastOp' = SaveLabel("checkConnection", modal.tempUrl, ollamaUrl)
    /\ UNCHANGED <<storeVars, now, isDeployed, checks, models, loads, server, route, navTimers,
                   dashVars, isProcessing, progress, pdfAvailable, pdfVars>>

(* a suspended saveConfiguration goes on: its checkConnection returns and, *)
(* when connected, loadModels is called; the fetch of loadModels settles;  *)
(* its response.json() settles.  After loadModels the dialog is closed.     *)
SaveConfigurationResumes ==
    \E k \in 1..Len(modal.saves) :
       LET save == modal.saves[k]
           rest == [i \in 1..(Len(modal.saves) - 1) |->
                       IF i < k THEN modal.saves[i] ELSE modal.saves[i + 1]]
           ended(m) == IF save.live THEN [m EXCEPT !.open = FALSE, !.saves = rest]
                       ELSE [m EXCEPT !.saves = rest]
           at(pc) == [modal EXCEPT !.saves[k].pc = pc]
       IN  /\ IF save.pc = "check"
              THEN \E outcome \in FetchOutcomes :
                      LET result == CheckConnectionResult(outcome)
                      IN  /\ isConnected' = result.returned
                          /\ models' = models
                          /\ IF result.returned
                             THEN /\ modal' = at("fetch")
                                  /\ lastOp' = SaveLabel("loadModels", save.saved, save.url)
                             ELSE /\ modal' = [modal EXCEPT !.saves = rest]
                                  /\ lastOp' = Step
              ELSE IF save.pc = "fetch"
              THEN \E outcome \in FetchOutcomes :
                      IF outcome = "ok"
                      THEN /\ modal' = at("json")
                           /\ lastOp' = Step
                           /\ UNCHANGED <<isConnected, models>>
                      ELSE LET after == LoadModelsCommit(models, outcome, <<>>)
                           IN  /\ isConnected' = after.isConnected
                               /\ models' = after.models
                               /\ modal' = ended(modal)
                               /\ lastOp' = LoadLabel(outcome)
              ELSE \E parsed \in BOOLEAN, body \in TagsBodies :
                      LET outcome == IF parsed THEN "ok" ELSE "invalidJson"
                          after == LoadModelsCommit(models, outcome, IF parsed THEN body ELSE <<>>)
                      IN  /\ isConnected' = after.isConnected
                          /\ models' = after.models
                          /\ modal' = ended(modal)
                          /\ lastOp' = LoadLabel(outcome)
           /\ UNCHANGED <<storeVars, now, isDeployed, checks, loads, server, ollamaUrl, route,
                          navTimers, dashVars, isProcessing, progress, pdfAvailable, pdfVars>>

----------------------------------------------------------------------------
(* HomePage.processText and HomePage.processYouTube (no await: one step)   *)

TextTitle == <<"Text Content - ", "date">>

(* addContent, then setTimeout(() => navigate('/dashboard'), 1000) *)
AddFromHome(content) ==
    /\ Len(contents) < MaxItems
    /\ SetStore(addContent(TheStore, content, now, now))
    /\ navTimers' = TRUE

ProcessText ==
    /\ route = "home"
    /\ ~isProcessing
    /\ \E text \in TextInputs :
          /\ IsNotBlank(text)
          /\ LET content == [title |-> TextTitle, type |-> "text", content |-> text]
             IN  /\ AddFromHome(content)
                 /\ lastOp' = [op |-> "processText", added |-> Some(content)]
    /\ isProcessing' = FALSE
    /\ progress' = 0
    /\ UNCHANGED <<now, ollamaVars, route, dashVars, pdfAvailable, modal, pdfVars>>

ProcessYouTube ==
    /\ route = "home"
    /\ ~isProcessing
    /\ \E url \in YouTubeUrls :
          /\ ~UrlIsBlank(url)
          /\ LET videoId == extractVideoId(url)
                 content == [title |-> <<"YouTube Video: ", Get(videoId)>>,
                             type |-> "youtube",
                             content |-> <<"transcript", Get(videoId)>>]
             IN  IF IsSome(videoId)
                 THEN /\ AddFromHome(content)
                      /\ lastOp' = [op |-> "processYouTube", url |-> url,
                                    added |-> Some(content)]
                 ELSE /\ lastOp' = [op |-> "processYouTube", url |-> url, added |-> None]
                      /\ UNCHANGED <<storeVars, navTimers>>
    /\ isProcessing' = FALSE
    /\ progress' = 0
    /\ UNCHANGED <<now, ollamaVars, route, dashVars, pdfAvailable, modal, pdfVars>>

----------------------------------------------------------------------------
(* Navigation *)

(* one pending timer fires; others may still be pending *)
NavTimerFires ==
    /\ navTimers
    /\ navTimers' \in BOOLEAN
    /\ PageChange("dashboard", contents)
    /\ lastOp' = Step
    /\ UNCHANGED <<storeVars, now>>

(* StudyDashboard: the Back and Upload Content buttons *)
GoHome ==
    /\ route = "dashboard"
    /\ PageChange("home", contents)
    /\ lastOp' = Step
    /\ UNCHANGED <<storeVars, now, navTimers>>

(* StudyDashboard: Start Chat opens another page *)
OpenSubPage ==
    /\ route = "dashboard"
    /\ IsSome(currentContent)
    /\ PageChange("other", contents)
    /\ lastOp' = Step
    /\ UNCHANGED <<storeVars, now, navTimers>>

(* QuizMode, Settings: Back to Dashboard *)
BackToDashboard ==
    /\ route = "other"
    /\ PageChange("dashboard", contents)
    /\ lastOp' = Step
    /\ UNCHANGED <<storeVars, now, navTimers>>

----------------------------------------------------------------------------
(* Calls of the store's context functions by a consumer, from the latest   *)
(* render (the function's closure holds the committed currentContent).     *)

KnownIds ==
    {contents[i].id : i \in 1..Len(contents)}
    \cup (IF IsSome(currentContent) THEN {Get(currentContent).id} ELSE {})

DeleteContent ==
    /\ \E id \in KnownIds :
          LET st == deleteContent(TheStore, currentContent, id)
          IN  /\ SetStore(st)
              /\ PageChange(route, st.contents)
              /\ lastOp' = [op |-> "deleteContent", id |-> id, current |-> currentContent]
    /\ UNCHANGED <<now, navTimers>>

SetCurrentContent ==
    /\ \E c \in {None} \cup {Some(contents[i]) : i \in 1..Len(contents)} :
          /\ currentContent' = c
          /\ lastOp' = Step
    /\ UNCHANGED <<contents, now, ollamaVars, route, navTimers, dashVars, homeVars, pdfVars>>

----------------------------------------------------------------------------
(* StudyDashboard: generateSummary, generateFlashcards, generateQuiz and   *)
(* OllamaProvider.generateText                                             *)

(* the argument of updateContent after a generation *)
GenerationUpdates(kind, id, text) ==
    CASE kind = "summary" -> [summary |-> Some(text)]
      [] kind = "flashcards" -> [flashcards |-> Some(ParseFlashcards(id, text))]
      [] kind = "quiz" -> [quiz |-> Some(ParseQuiz(id, text))]

GenOk(text) == [ok |-> TRUE, text |-> text, cause |-> "none"]
GenFailed(cause) == [ok |-> FALSE, text |-> <<>>, cause |-> cause]

(* the try block after the response: updateContent on success, the catch on *)
(* failure; item is the currentContent the handler closed over              *)
(* a handler that calls updateContent whatever the outcome *)
GenerateCommit_always(st, item, kind, outcome) ==
    updateContent(st, Some(item), item.id, GenerationUpdates(kind, item.id, outcome.text))

GenerateCommit(st, item, kind, outcome) ==
    IF outcome.ok
    THEN updateContent(st, Some(item), item.id, GenerationUpdates(kind, item.id, outcome.text))
    ELSE st

(* the handler from its await to its end; live: its dashboard is still mounted *)
GenerateFinish(g, outcome) ==
    /\ SetStore(GenerateCommit(TheStore, g.item, g.kind, outcome))
    /\ IF g.live
       THEN isGenerating' = FALSE /\ generationProgress' = 0
       ELSE UNCHANGED <<isGenerating, generationProgress>>
    /\ lastOp' = [op |-> "generate", kind |-> g.kind, id |-> g.item.id,
                  ok |-> outcome.ok, cause |-> outcome.cause, text |-> outcome.text]

Remove(seq, i) == SubSeq(seq, 1, i - 1) \o SubSeq(seq, i + 1, Len(seq))

(* what a handler keeps of the currentContent it closed over: the id *)
Closed(c) == [id |-> c.id]

(* a click on one of the three Generate buttons *)
Generate ==
    /\ route = "dashboard"
    /\ IsSome(currentContent)
    /\ ~isGenerating
    /\ \E kind \in GenKinds :
          LET item == Closed(Get(currentContent))
              g == [kind |-> kind, item |-> item, live |-> TRUE, pc |-> "fetch"]
          IN  IF ~isConnected /\ ~isDeployed
              THEN /\ lastOp' = [op |-> "generate", kind |-> kind, id |-> item.id,
                                 ok |-> FALSE, cause |-> "notConnected", text |-> <<>>]
                   /\ UNCHANGED <<storeVars, dashVars>>
              ELSE IF isDeployed
              THEN /\ GenerateFinish(g, GenOk(DemoText(kind)))
                   /\ gens' = gens
              ELSE /\ Len(gens) < MaxGens
                   /\ gens' = Append(gens, g)
                   /\ isGenerating' = TRUE
                   /\ generationProgress' = 50
                   /\ lastOp' = Step
                   /\ UNCHANGED storeVars
    /\ UNCHANGED <<now, ollamaVars, route, navTimers, homeVars, pdfVars>>

(* the fetch of generateText settles *)
GenerateFetchSettles ==
    /\ \E i \in 1..Len(gens) : \E outcome \in FetchOutcomes :
          /\ gens[i].pc = "fetch"
          /\ IF outcome = "ok"
             THEN /\ gens' = [gens EXCEPT ![i].pc = "json"]
                  /\ lastOp' = Step
                  /\ UNCHANGED <<storeVars, isGenerating, generationProgress>>
             ELSE /\ gens' = Remove(gens, i)
                  /\ GenerateFinish(gens[i], GenFailed(outcome))
    /\ UNCHANGED <<now, ollamaVars, route, navTimers, homeVars, pdfVars>>

(* response.json() settles: the body parsed, or it is no JSON *)
GenerateBodySettles ==
    /\ \E i \in 1..Len(gens) :
          /\ gens[i].pc = "json"
          /\ gens' = Remove(gens, i)
          /\ \/ \E text \in ResponseTexts(gens[i].kind) :
                   GenerateFinish(gens[i], GenOk(text))
             \/ GenerateFinish(gens[i], GenFailed("invalidJson"))
    /\ UNCHANGED <<now, ollamaVars, route, navTimers, homeVars, pdfVars>>

----------------------------------------------------------------------------
(* pdfProcessor: processPDFFile, validatePDFFile                           *)

PdfType == "application/pdf"
SizeLimit == 50 * 1024 * 1024
DefaultMaxPages == 100
AppMaxPages == 100

FileTypes == {PdfType, "text/plain"}
FileSizes == {0, 1, SizeLimit, SizeLimit + 1}
Files == [type : FileTypes, size : FileSizes]

ErrorCodes ==
    {"UNAVAILABLE", "INVALID_TYPE", "FILE_TOO_LARGE", "PASSWORD_PROTECTED", "INVALID_PDF",
     "LOAD_ERROR", "NO_TEXT", "TIMEOUT", "PROCESSING_ERROR", "UNKNOWN_ERROR"}

(* what a promise settles with: a PDFProcessingResult, or something thrown *)
PdfOk(text, pageCount, title) ==
    [ok |-> TRUE, cls |-> "none", code |-> "none", text |-> text,
     pageCount |-> pageCount, title |-> title]
Thrown(cls, code) ==
    [ok |-> FALSE, cls |-> cls, code |-> code, text |-> <<>>, pageCount |-> 0,
     title |-> "none"]
PdfError(code) == Thrown("PDFProcessingError", code)

(* the catch of processPDFFile *)
Normalize(e) ==
    IF e.cls = "PDFProcessingError" THEN e
    ELSE IF e.cls = "Error" THEN PdfError("PROCESSING_ERROR")
    ELSE PdfError("UNKNOWN_ERROR")

(* what `return await Promise.race(...)` inside the try makes of a settlement *)
Settled(r) == IF r.ok THEN r ELSE Normalize(r)

(* a race in which the last settlement stands *)
RaceSettle_last(outcome, r) == Some(Settled(r))

(* Promise.race: the first settlement stands *)
RaceSettle(outcome, r) == IF IsSome(outcome) THEN outcome ELSE Some(Settled(r))

isPDFProcessingAvailable == workerOk

(* the checks without the size limit *)
PreCheck_noSize(file) ==
    IF ~isPDFProcessingAvailable THEN Some(PdfError("UNAVAILABLE"))
    ELSE IF file.type # PdfType THEN Some(PdfError("INVALID_TYPE"))
    ELSE None

(* the checks of processPDFFile before its try block *)
PreCheck(file) ==
    IF ~isPDFProcessingAvailable THEN Some(PdfError("UNAVAILABLE"))
    ELSE IF file.type # PdfType THEN Some(PdfError("INVALID_TYPE"))
    ELSE IF file.size > SizeLimit THEN Some(PdfError("FILE_TOO_LARGE"))
    ELSE None

(* file is an optional File *)
validatePDFFile(file) ==
    IF ~IsSome(file) THEN [valid |-> FALSE, error |-> "No file provided"]
    ELSE IF Get(file).type # PdfType THEN [valid |-> FALSE, error |-> "File must be a PDF"]
    ELSE IF Get(file).size = 0 THEN [valid |-> FALSE, error |-> "File is empty"]
    ELSE IF Get(file).size > SizeLimit
         THEN [valid |-> FALSE, error |-> "File is too large (max 50MB)"]
    ELSE [valid |-> TRUE, error |-> "none"]

(* the text items of a page: item.str is "", a blank or a word *)
Fragments == {"", " ", "a"}
RECURSIVE SeqsUpTo(_, _)
SeqsUpTo(S, n) ==
    IF n = 0 THEN {<<>>}
    ELSE LET shorter == SeqsUpTo(S, n - 1)
         IN  shorter \cup {Append(q, x) : q \in {r \in shorter : Len(r) = n - 1}, x \in S}
PageItems == SeqsUpTo(Fragments, MaxFragments)

KeepsItem(str) == str # "" /\ str # " "

RECURSIVE JoinWords(_)
JoinWords(words) ==
    IF Len(words) <= 1 THEN words ELSE <<words[1], " ">> \o JoinWords(Tail(words))

(* filter, map, join(' '), replace(/\s+/g, ' '), trim *)
PageText(items) == JoinWords(SelectSeq(items, KeepsItem))

(* 30 + (pageNum / numPages) * 60; exact for the page counts of the model *)
PageProgress(pageNum, numPages) == 30 + (pageNum * 60) \div numPages

Callbacks == {"none", "returns", "throws"}
(* how one invocation of options.onProgress ends *)
CallbackEnds(cb) == IF cb = "throws" THEN {"return", "Error", "other"} ELSE {"return"}

(* onProgress?.(value) *)
Reported(call, value) ==
    IF call.cb = "none" THEN call
    ELSE [call EXCEPT !.reported = Append(@, value)]

NewCall(caller, file, cb, maxPages) ==
    [caller |-> caller, live |-> TRUE, file |-> file, cb |-> cb, maxPages |-> maxPages,
     pc |-> "start", numPages |-> 0, limit |-> 0, pageNum |-> 0, fullText |-> <<>>,
     title |-> "file name", timerFired |-> FALSE, outcome |-> None, reported |-> <<>>,
     opened |-> {}, cleaned |-> {}, destroyed |-> FALSE, turns |-> <<>>]

(* lines 148-164: after the page loop.  A step of the task is a pair of the *)
(* call's record and, once the task has settled, what it settled with.      *)
Running(call) == [call |-> call, result |-> None]
Ended(call, r) == [call |-> call, result |-> Some(r)]

(* pageCount of the result *)
ResultPageCount(call) == call.numPages

(* the end of the task without the NO_TEXT check *)
FinishTask_noCheck(call, end95, end100) ==
    LET c1 == [Reported(call, 95) EXCEPT !.pc = "end"]
        c2 == [c1 EXCEPT !.destroyed = TRUE]
        c3 == Reported(c2, 100)
    IN  IF end95 # "return" THEN Ended(c1, Thrown(end95, "none"))
        ELSE IF end100 # "return" THEN Ended(c3, Thrown(end100, "none"))
        ELSE Ended(c3, PdfOk(Trim(c3.fullText), ResultPageCount(c3), c3.title))

FinishTask(call, end95, end100) ==
    LET c1 == [Reported(call, 95) EXCEPT !.pc = "end"]
        c2 == [c1 EXCEPT !.destroyed = TRUE]
        c3 == Reported(c2, 100)
    IN  IF end95 # "return" THEN Ended(c1, Thrown(end95, "none"))
        ELSE IF Len(Trim(c2.fullText)) = 0 THEN Ended(c2, PdfError("NO_TEXT"))
        ELSE IF end100 # "return" THEN Ended(c3, Thrown(end100, "none"))
        ELSE Ended(c3, PdfOk(Trim(c3.fullText), ResultPageCount(c3), c3.title))

(* file.arrayBuffer() settles; onProgress(15); getDocument is awaited *)
ReadStep(call, read, end15) ==
    IF read = "reject" THEN Ended(call, Thrown("Error", "none"))
    ELSE LET c1 == Reported(call, 15)
         IN  IF end15 # "return" THEN Ended(c1, Thrown(end15, "none"))
             ELSE Running([c1 EXCEPT !.pc = "load"])

(* getDocument rejects with an error of some name or resolves with a document *)
LoadOutcomes ==
    {[name |-> e, numPages |-> 0] : e \in {"PasswordException", "InvalidPDFException", "Error"}}
    \cup {[name |-> "none", numPages |-> n] : n \in 1..MaxDocPages}

(* the numPages of the loop *)
PageLimit(numPages, maxPages) == Min(numPages, maxPages)

(* getDocument settles; onProgress(25); getMetadata is awaited *)
LoadStep(call, load, end25) ==
    IF load.name = "PasswordException" THEN Ended(call, PdfError("PASSWORD_PROTECTED"))
    ELSE IF load.name = "InvalidPDFException" THEN Ended(call, PdfError("INVALID_PDF"))
    ELSE IF load.name # "none" THEN Ended(call, PdfError("LOAD_ERROR"))
    ELSE LET c1 == Reported(call, 25)
         IN  IF end25 # "return" THEN Ended(c1, Thrown(end25, "none"))
             ELSE Running([c1 EXCEPT !.pc = "meta", !.numPages = load.numPages,
                                     !.limit = PageLimit(load.numPages, call.maxPages)])

MetaOutcomes == {"title", "no title", "reject"}

(* getMetadata settles; onProgress(30); the loop starts or, with no page, ends *)
MetaStep(call, meta, end30, end95, end100) ==
    LET c1 == Reported([call EXCEPT !.title = IF meta = "title" THEN "meta title"
                                              ELSE "file name"], 30)
    IN  IF end30 # "return" THEN Ended(c1, Thrown(end30, "none"))
        ELSE IF c1.limit >= 1 THEN Running([c1 EXCEPT !.pc = "page", !.pageNum = 1])
        ELSE FinishTask(c1, end95, end100)

PageOutcomes ==
    {[rejects |-> r, items |-> <<>>] : r \in {"getPage", "getTextContent"}}
    \cup {[rejects |-> "none", items |-> items] : items \in PageItems}

(* what one turn of the loop did: the page it was for, whether its text    *)
(* was extracted, and the text                                             *)
Turn(pageNum, extracted, pageText) ==
    [pageNum |-> pageNum, extracted |-> extracted, text |-> pageText]

(* a loop that starts the text afresh after a page that failed *)
PageTurn_restarts(call, page, endP) ==
    LET failed == [call EXCEPT !.turns = Append(@, Turn(call.pageNum, FALSE, <<>>)),
                               !.fullText = <<>>]
    IN  IF page.rejects = "getPage" THEN failed
        ELSE LET c1 == [call EXCEPT !.opened = @ \cup {call.pageNum}]
             IN  IF page.rejects = "getTextContent"
                 THEN [failed EXCEPT !.opened = @ \cup {call.pageNum}]
                 ELSE LET pageText == PageText(page.items)
                          c2 == IF Len(pageText) > 0
                                THEN [c1 EXCEPT !.fullText = @ \o pageText \o <<"\n", "\n">>]
                                ELSE c1
                          c3 == Reported([c2 EXCEPT !.turns =
                                             Append(@, Turn(call.pageNum, TRUE, pageText))],
                                         PageProgress(call.pageNum, call.limit))
                      IN  IF endP # "return" THEN c3
                          ELSE [c3 EXCEPT !.cleaned = @ \cup {call.pageNum}]

(* one turn of the loop: lines 117-145 *)
PageTurn(call, page, endP) ==
    LET failed == [call EXCEPT !.turns = Append(@, Turn(call.pageNum, FALSE, <<>>))]
    IN  IF page.rejects = "getPage" THEN failed
        ELSE LET c1 == [call EXCEPT !.opened = @ \cup {call.pageNum}]
             IN  IF page.rejects = "getTextContent"
                 THEN [failed EXCEPT !.opened = @ \cup {call.pageNum}]
                 ELSE LET pageText == PageText(page.items)
                          c2 == IF Len(pageText) > 0
                                THEN [c1 EXCEPT !.fullText = @ \o pageText \o <<"\n", "\n">>]
                                ELSE c1
                          c3 == Reported([c2 EXCEPT !.turns =
                                             Append(@, Turn(call.pageNum, TRUE, pageText))],
                                         PageProgress(call.pageNum, call.limit))
                      IN  IF endP # "return" THEN c3
                          ELSE [c3 EXCEPT !.cleaned = @ \cup {call.pageNum}]

(* the page settles; the next page is awaited or the task ends *)
PageStep(call, page, endP, end95, end100) ==
    LET c1 == PageTurn(call, page, endP)
    IN  IF c1.pageNum < c1.limit THEN Running([c1 EXCEPT !.pageNum = @ + 1])
        ELSE FinishTask(c1, end95, end100)

----------------------------------------------------------------------------
(* One call of processPDFFile: its start, the steps of its processing task, *)
(* its timeout, and the caller that awaits it.  caller is "home" for        *)
(* HomePage.processFile and "library" for any other user of the module.     *)

MaxPagesOptions == (0..MaxPagesOpt) \cup {DefaultMaxPages}

(* processFile's argument of addContent *)
PdfContent(result) == [title |-> <<result.title>>, type |-> "pdf", content |-> result.text]

(* processFile adding an item whatever the outcome *)
ProcessFileCommit_always(st, outcome, idClock, createdClock) ==
    addContent(st, PdfContent(outcome), idClock, createdClock)

(* processFile after its await: addContent on success, the catch on failure *)
ProcessFileCommit(st, outcome, idClock, createdClock) ==
    IF outcome.ok THEN addContent(st, PdfContent(outcome), idClock, createdClock) ELSE st

LastReported(call, before) ==
    IF Len(call.reported) > Len(before) THEN Some(call.reported[Len(call.reported)]) ELSE None

(* the caller of a call that has just settled with outcome *)
CallerResumes(call, outcome) ==
    IF call.caller = "home"
    THEN /\ outcome.ok => Len(contents) < MaxItems
         /\ SetStore(ProcessFileCommit(TheStore, outcome, now, now))
         /\ navTimers' = (navTimers \/ outcome.ok)
         /\ IF call.live
            THEN isProcessing' = FALSE /\ progress' = 0
            ELSE UNCHANGED <<isProcessing, progress>>
    ELSE UNCHANGED <<storeVars, navTimers, isProcessing, progress>>

(* the call goes on; its callback may have set HomePage's progress *)
CallerWaits(call, before, starts) ==
    /\ UNCHANGED <<storeVars, navTimers>>
    /\ IF call.caller = "home" /\ call.live
       THEN /\ isProcessing' = (isProcessing \/ starts)
            /\ progress' = IF IsSome(LastReported(call, before))
                           THEN Get(LastReported(call, before)) ELSE progress
       ELSE UNCHANGED <<isProcessing, progress>>

PdfLabel(event, call) == [op |-> "pdf", event |-> event, call |-> call]

(* lines 58-83: the checks, onProgress(5), the timer, the task's first await *)
StartStep(call, end5) ==
    LET pre == PreCheck(call.file)
        c5 == Reported(call, 5)
    IN  IF IsSome(pre) THEN Ended(call, Get(pre))
        ELSE IF end5 # "return" THEN Ended(c5, Thrown(end5, "none"))
        ELSE Running([c5 EXCEPT !.pc = "read"])

CallStarts(call, end5) ==
    LET step == StartStep(call, end5)
    IN  IF IsSome(step.result)
        THEN LET final == [step.call EXCEPT !.outcome = step.result]
             IN  /\ pdfCalls' = pdfCalls
                 /\ CallerResumes(final, Get(final.outcome))
                 /\ lastOp' = PdfLabel("settled", final)
        ELSE /\ pdfCalls' = Append(pdfCalls, step.call)
             /\ CallerWaits(step.call, call.reported, TRUE)
             /\ lastOp' = Step

(* the task of call i has taken a step *)
CallAdvances(i, step) ==
    LET old == pdfCalls[i]
    IN  IF IsSome(step.result)
        THEN LET final == [step.call EXCEPT !.outcome = RaceSettle(@, Get(step.result))]
             IN  /\ pdfCalls' = Remove(pdfCalls, i)
                 /\ IF IsSome(old.outcome)
                    THEN /\ CallerWaits(final, old.reported, FALSE)
                         /\ lastOp' = PdfLabel("discarded", final)
                    ELSE /\ CallerResumes(final, Get(final.outcome))
                         /\ lastOp' = PdfLabel("settled", final)
        ELSE /\ pdfCalls' = [pdfCalls EXCEPT ![i] = step.call]
             /\ CallerWaits(step.call, old.reported, FALSE)
             /\ lastOp' = Step

PdfRead ==
    /\ \E i \in 1..Len(pdfCalls) :
          /\ pdfCalls[i].pc = "read"
          /\ \E read \in {"resolve", "reject"}, end15 \in CallbackEnds(pdfCalls[i].cb) :
                CallAdvances(i, ReadStep(pdfCalls[i], read, end15))
    /\ UNCHANGED <<now, ollamaVars, route, dashVars, pdfAvailable, modal, workerOk>>

PdfLoad ==
    /\ \E i \in 1..Len(pdfCalls) :
          /\ pdfCalls[i].pc = "load"
          /\ \E load \in LoadOutcomes, end25 \in CallbackEnds(pdfCalls[i].cb) :
                CallAdvances(i, LoadStep(pdfCalls[i], load, end25))
    /\ UNCHANGED <<now, ollamaVars, route, dashVars, pdfAvailable, modal, workerOk>>

PdfMeta ==
    /\ \E i \in 1..Len(pdfCalls) :
          /\ pdfCalls[i].pc = "meta"
          /\ \E meta \in MetaOutcomes :
             \E end30 \in CallbackEnds(pdfCalls[i].cb), end95 \in CallbackEnds(pdfCalls[i].cb),
                end100 \in CallbackEnds(pdfCalls[i].cb) :
                CallAdvances(i, MetaStep(pdfCalls[i], meta, end30, end95, end100))
    /\ UNCHANGED <<now, ollamaVars, route, dashVars, pdfAvailable, modal, workerOk>>

PdfPage ==
    /\ \E i \in 1..Len(pdfCalls) :
          /\ pdfCalls[i].pc = "page"
          /\ \E page \in PageOutcomes :
             \E endP \in CallbackEnds(pdfCalls[i].cb), end95 \in CallbackEnds(pdfCalls[i].cb),
                end100 \in CallbackEnds(pdfCalls[i].cb) :
                CallAdvances(i, PageStep(pdfCalls[i], page, endP, end95, end100))
    /\ UNCHANGED <<now, ollamaVars, route, dashVars, pdfAvailable, modal, workerOk>>

(* the timer of line 81 fires while the task is still running *)
PdfTimeout ==
    /\ \E i \in 1..Len(pdfCalls) :
          /\ ~pdfCalls[i].timerFired
          /\ LET old == pdfCalls[i]
                 call == [old EXCEPT !.timerFired = TRUE,
                                     !.outcome = RaceSettle(@, PdfError("TIMEOUT"))]
             IN  /\ pdfCalls' = [pdfCalls EXCEPT ![i] = call]
                 /\ IF IsSome(old.outcome)
                    THEN CallerWaits(call, old.reported, FALSE)
                    ELSE CallerResumes(call, Get(call.outcome))
                 /\ lastOp' = PdfLabel("settled", call)
    /\ UNCHANGED <<now, ollamaVars, route, dashVars, pdfAvailable, modal, workerOk>>

(* a user of the module calls processPDFFile(file, options) *)
ProcessPDFFile ==
    /\ Len(pdfCalls) < MaxPdfCalls
    /\ \E file \in Files, cb \in Callbacks, maxPages \in MaxPagesOptions :
       \E end5 \in CallbackEnds(cb) :
          CallStarts(NewCall("library", file, cb, maxPages), end5)
    /\ UNCHANGED <<now, ollamaVars, route, dashVars, pdfAvailable, modal, workerOk>>

(* the triggers of HomePage: the dropzone input, the two Process buttons *)
DropzoneEnabled == pdfAvailable
ButtonsEnabled == ~isProcessing

(* HomePage: a drop on the dropzone, onDrop and processFile up to the await *)
ProcessFile ==
    /\ route = "home"
    /\ \E dropped \in {None} \cup {Some(f) : f \in Files} :
          LET validation == validatePDFFile(dropped)
              refused(why) ==
                  /\ lastOp' = [op |-> "processFile", refused |-> why]
                  /\ UNCHANGED <<storeVars, navTimers, isProcessing, progress, pdfCalls>>
          IN  IF ~IsSome(dropped) THEN refused("no file")
              ELSE IF Get(dropped).type # PdfType THEN refused("not a pdf")
              ELSE IF ~validation.valid THEN refused(validation.error)
              ELSE IF ~pdfAvailable THEN refused("unavailable")
              ELSE /\ Len(pdfCalls) < MaxPdfCalls
                   /\ CallStarts(NewCall("home", Get(dropped), "returns", AppMaxPages), "return")
    /\ UNCHANGED <<now, ollamaVars, route, dashVars, pdfAvailable, modal, workerOk>>

----------------------------------------------------------------------------
(* The application after its first render: HomePage is mounted and its     *)
(* mount effects have run.                                                 *)

InitApp ==
    /\ contents = <<>>
    /\ currentContent = None
    /\ now = 1
    /\ isConnected = FALSE
    /\ checks = ~isDeployed
    /\ models = <<>>
    /\ loads = NoLoads
    /\ route = "home"
    /\ navTimers = FALSE
    /\ isGenerating = FALSE
    /\ generationProgress = 0
    /\ gens = <<>>
    /\ isProcessing = FALSE
    /\ progress = 0
    /\ pdfAvailable = workerOk
    /\ ollamaUrl = DefaultUrl
    /\ modal = ClosedModal(DefaultUrl)
    /\ pdfCalls = <<>>
    /\ lastOp = Step

(* The content store: text and video ingestion, navigation and the calls   *)
(* of the store's functions.                                               *)
InitStore ==
    /\ server = SmallServer
    /\ isDeployed = TRUE
    /\ workerOk = TRUE
    /\ InitApp

NextStore ==
    \/ Tick
    \/ ProcessText
    \/ ProcessYouTube
    \/ NavTimerFires
    \/ GoHome
    \/ DeleteContent
    \/ SetCurrentContent

SpecStore == InitStore /\ [][NextStore]_vars

(* Generation: the dashboard's handlers against the model server or, in    *)
(* demonstration mode, the fixed texts.                                    *)
InitGenerate ==
    /\ server = SmallServer
    /\ isDeployed \in BOOLEAN
    /\ workerOk = TRUE
    /\ InitApp

NextGenerate ==
    \/ Tick
    \/ CheckConnection
    \/ CheckConnectionSettles
    \/ ProcessText
    \/ NavTimerFires
    \/ GoHome
    \/ OpenSubPage
    \/ BackToDashboard
    \/ Generate
    \/ GenerateFetchSettles
    \/ GenerateBodySettles

SpecGenerate == InitGenerate /\ [][NextGenerate]_vars

(* The response parsers: the dashboard on one pasted text, the server      *)
(* connected and answering in one of many ways.                            *)
InitParse ==
    LET pasted == NewContent([title |-> TextTitle, type |-> "text", content |-> <<"w">>], 1, 1)
    IN  /\ server \in RichServers
        /\ isDeployed = FALSE
        /\ workerOk = TRUE
        /\ contents = <<pasted>>
        /\ currentContent = Some(pasted)
        /\ now = 1
        /\ isConnected = TRUE
        /\ checks = FALSE
        /\ models = <<>>
        /\ loads = NoLoads
        /\ route = "dashboard"
        /\ navTimers = FALSE
        /\ isGenerating = FALSE
        /\ generationProgress = 0
        /\ gens = <<>>
        /\ isProcessing = FALSE
        /\ progress = 0
        /\ pdfAvailable = workerOk
        /\ ollamaUrl = DefaultUrl
        /\ modal = ClosedModal(DefaultUrl)
        /\ pdfCalls = <<>>
        /\ lastOp = Step

NextParse ==
    \/ Generate
    \/ GenerateFetchSettles
    \/ GenerateBodySettles

SpecParse == InitParse /\ [][NextParse]_vars

(* The same with time: the abort timer of generateText (30 s) settles a    *)
(* fetch that is still pending; it is cleared once the response has come,  *)
(* so nothing makes response.json() settle.                                *)
SpecParseFair == SpecParse /\ WF_vars(GenerateFetchSettles)

(* The model connection: probes, model listings and generations, against   *)
(* a local server or in demonstration mode.                                *)
InitOllama ==
    /\ server = SmallServer
    /\ isDeployed \in BOOLEAN
    /\ workerOk = TRUE
    /\ InitApp

NextOllama ==
    \/ CheckConnection
    \/ CheckConnectionSettles
    \/ LoadModels
    \/ LoadModelsFetchSettles
    \/ LoadModelsBodySettles
    \/ ProcessText
    \/ NavTimerFires
    \/ Generate
    \/ GenerateFetchSettles
    \/ GenerateBodySettles

SpecOllama == InitOllama /\ [][NextOllama]_vars

(* The configuration dialog on the home page, against a local server or in *)
(* demonstration mode.                                                     *)
InitConfig ==
    /\ server = SmallServer
    /\ isDeployed \in BOOLEAN
    /\ workerOk = TRUE
    /\ InitApp

NextConfig ==
    \/ CheckConnection
    \/ CheckConnectionSettles
    \/ OpenConfigModal
    \/ EditUrl
    \/ TestConnection
    \/ TestConnectionSettles
    \/ SaveConfiguration
    \/ SaveConfigurationResumes

SpecConfig == InitConfig /\ [][NextConfig]_vars

(* Ingestion on HomePage: files and video links, and the PDF call that a    *)
(* file starts.                                                             *)
InitIngest ==
    /\ server = SmallServer
    /\ isDeployed = TRUE
    /\ workerOk \in BOOLEAN
    /\ InitApp

NextIngest ==
    \/ Tick
    \/ ProcessFile
    \/ PdfRead
    \/ PdfLoad
    \/ PdfMeta
    \/ PdfPage
    \/ PdfTimeout
    \/ ProcessYouTube

SpecIngest == InitIngest /\ [][NextIngest]_vars

(* The PDF module on its own: calls with any file, options and callback.    *)
InitPDF ==
    /\ server = SmallServer
    /\ isDeployed = TRUE
    /\ workerOk \in BOOLEAN
    /\ InitApp

NextPDF ==
    \/ ProcessPDFFile
    \/ PdfRead
    \/ PdfLoad
    \/ PdfMeta
    \/ PdfPage
    \/ PdfTimeout

SpecPDF == InitPDF /\ [][NextPDF]_vars

----------------------------------------------------------------------------
(* Properties *)

Indices(seq) == 1..Len(seq)

(* C1: after addContent(c) the collection is the previous collection with   *)
(* exactly one new item appended at the end, carrying c's title, type and   *)
(* content, and currentContent is that new item.                            *)
AddContentAppends ==
    [][(lastOp'.op \in {"processText", "processYouTube"} /\ IsSome(lastOp'.added)) =>
          LET c == Get(lastOp'.added)
              n == Len(contents')
          IN  /\ n = Len(contents) + 1
              /\ SubSeq(contents', 1, n - 1) = contents
              /\ contents'[n].title = c.title
              /\ contents'[n].type = c.type
              /\ contents'[n].content = c.content
              /\ currentContent' = Some(contents'[n])]_vars

(* an item has just been added to a collection that already held one *)
AddContentAppendsWitness ==
    /\ lastOp.op \in {"processText", "processYouTube"}
    /\ IsSome(lastOp.added)
    /\ Len(contents) = 2
    /\ contents[1].type # contents[2].type
    /\ currentContent = Some(contents[2])

(* C2: after deleteContent(id), where id is the id of the item current at   *)
(* the time of the call, no item with that id is in the collection and      *)
(* currentContent is none, whatever store operations came before.           *)
DeleteCurrentClears ==
    [][(lastOp'.op = "deleteContent" /\ IsSome(currentContent)
          /\ Get(currentContent).id = lastOp'.id) =>
          /\ currentContent' = None
          /\ \A i \in Indices(contents') : contents'[i].id # lastOp'.id]_vars

(* the current item has just been deleted and another item remains *)
DeleteCurrentClearsWitness ==
    /\ lastOp.op = "deleteContent"
    /\ IsSome(lastOp.current)
    /\ Get(lastOp.current).id = lastOp.id
    /\ currentContent = None
    /\ Len(contents) = 1

(* C3: a generation that fails, for whatever cause, does not call           *)
(* updateContent: the step in which it fails leaves every item and          *)
(* currentContent as they were.                                             *)
FailedGenerationCommitsNothing ==
    [][(lastOp'.op = "generate" /\ ~lastOp'.ok) =>
          /\ contents' = contents
          /\ currentContent' = currentContent]_vars

(* a generation on an item that already has a summary has just timed out *)
FailedGenerationCommitsNothingWitness ==
    /\ lastOp.op = "generate"
    /\ ~lastOp.ok
    /\ lastOp.cause = "abort"
    /\ \E i \in Indices(contents) :
          contents[i].id = lastOp.id /\ IsSome(contents[i].summary)

FailedIngestion ==
    \/ lastOp.op = "processFile"
    \/ /\ lastOp.op = "pdf"
       /\ lastOp.call.caller = "home"
       /\ ~Get(lastOp.call.outcome).ok
    \/ lastOp.op = "processYouTube" /\ ~IsSome(extractVideoId(lastOp.url))

(* C4: a failed ingestion never creates an item: when the dropped file is   *)
(* refused by validation, PDF processing is unavailable, processPDFFile      *)
(* rejects (timeout included), or a YouTube URL matches no pattern, the     *)
(* collection and currentContent are unchanged.                             *)
FailedIngestionAddsNothing ==
    [][FailedIngestion' =>
          /\ contents' = contents
          /\ currentContent' = currentContent]_vars

(* a PDF call of HomePage that had extracted text has just timed out, with  *)
(* an item already in the collection                                        *)
FailedIngestionAddsNothingWitness ==
    /\ lastOp.op = "pdf"
    /\ lastOp.call.caller = "home"
    /\ lastOp.call.timerFired
    /\ Get(lastOp.call.outcome) = PdfError("TIMEOUT")
    /\ Len(lastOp.call.fullText) > 0
    /\ Len(contents) = 1

OnlyFieldChanged(old, new, field) ==
    \A f \in DOMAIN old \ {field} : new[f] = old[f]

(* C5: a successful generation on item X replaces only the generated field  *)
(* of its kind on X: X's other fields and every other item of the           *)
(* collection are unchanged.                                                *)
GenerationReplacesOneField ==
    [][(lastOp'.op = "generate" /\ lastOp'.ok) =>
          /\ Len(contents') = Len(contents)
          /\ \A i \in Indices(contents) :
                OnlyFieldChanged(contents[i], contents'[i], lastOp'.kind)
          /\ \A i \in Indices(contents) :
                contents'[i] # contents[i] => contents[i].id = lastOp'.id
          /\ Cardinality({i \in Indices(contents) : contents'[i] # contents[i]}) <= 1]_vars

(* the calls of processPDFFile in flight, and the one that has just ended *)
PdfCallsSeen ==
    {pdfCalls[i] : i \in Indices(pdfCalls)}
    \cup (IF lastOp.op = "pdf" THEN {lastOp.call} ELSE {})

(* C6: if the timeout elapses before the processing task has produced its   *)
(* result, the call fails with TIMEOUT and never resolves with text; what   *)
(* the abandoned task produces later is discarded.                          *)
TimeoutWins ==
    \A c \in PdfCallsSeen :
       c.timerFired => IsSome(c.outcome) /\ Get(c.outcome) = PdfError("TIMEOUT")

(* the task of a timed-out call has just ended with all its text extracted *)
TimeoutWinsWitness ==
    /\ lastOp.op = "pdf"
    /\ lastOp.event = "discarded"
    /\ lastOp.call.timerFired
    /\ lastOp.call.pc = "end"
    /\ Len(lastOp.call.fullText) > 0
    /\ Get(lastOp.call.outcome) = PdfError("TIMEOUT")

(* C7: on success processPDFFile returns non-empty text and pageCount >= 1, *)
(* and when the document has more pages than maxPages the returned          *)
(* pageCount is min(actualPages, maxPages).                                 *)
SuccessPageCount ==
    \A c \in PdfCallsSeen :
       (IsSome(c.outcome) /\ Get(c.outcome).ok) =>
          /\ Len(Get(c.outcome).text) > 0
          /\ Get(c.outcome).pageCount >= 1
          /\ c.numPages > c.maxPages =>
                Get(c.outcome).pageCount = Min(c.numPages, c.maxPages)

(* the task went through all its pages and none contributed text *)
EndedWithoutText(c) == c.pc = "end" /\ Len(c.fullText) = 0

(* C8 as stated: if no processed page contributes text, processPDFFile      *)
(* fails with NO_TEXT.                                                      *)
NoTextFails ==
    \A c \in PdfCallsSeen :
       EndedWithoutText(c) => IsSome(c.outcome) /\ Get(c.outcome) = PdfError("NO_TEXT")

(* C8: if no processed page contributes text, processPDFFile fails: with    *)
(* NO_TEXT, unless the timeout elapsed first (TIMEOUT) or the progress      *)
(* callback raised at the report of 95 (PROCESSING_ERROR, UNKNOWN_ERROR);   *)
(* and it never returns a success whose text is empty.                      *)
NoTextFailsUnlessPreempted ==
    \A c \in PdfCallsSeen :
       /\ EndedWithoutText(c) =>
             /\ IsSome(c.outcome)
             /\ Get(c.outcome).cls = "PDFProcessingError"
             /\ IF c.timerFired THEN Get(c.outcome).code = "TIMEOUT"
                ELSE \/ Get(c.outcome).code = "NO_TEXT"
                     \/ /\ c.cb = "throws"
                        /\ c.reported[Len(c.reported)] = 95
                        /\ Get(c.outcome).code \in {"PROCESSING_ERROR", "UNKNOWN_ERROR"}
       /\ (IsSome(c.outcome) /\ Get(c.outcome).ok) => Len(Get(c.outcome).text) > 0

(* every page of a two-page document was read and held only blank items *)
NoTextFailsUnlessPreemptedWitness ==
    /\ lastOp.op = "pdf"
    /\ EndedWithoutText(lastOp.call)
    /\ lastOp.call.limit = 2
    /\ lastOp.call.cleaned = {1, 2}
    /\ Get(lastOp.call.outcome) = PdfError("NO_TEXT")

TooLarge(file) == file.size > SizeLimit

(* C9 as stated: for any payload larger than 50 MB, whatever its other      *)
(* attributes, validation fails with the file-too-large reason and no       *)
(* parsing step is attempted.                                               *)
TooLargeRefused ==
    /\ \A c \in PdfCallsSeen :
          TooLarge(c.file) =>
             /\ c.pc = "start"
             /\ c.outcome = Some(PdfError("FILE_TOO_LARGE"))
    /\ \A c \in PdfCallsSeen :
          TooLarge(c.file) =>
             validatePDFFile(Some(c.file)) =
                [valid |-> FALSE, error |-> "File is too large (max 50MB)"]

(* C9: for any payload larger than 50 MB validation fails and no parsing    *)
(* step is attempted; the reason is file-too-large when the payload is of   *)
(* type application/pdf (and, for processPDFFile, processing is available), *)
(* otherwise the type or availability check, which comes first, gives it.   *)
TooLargeRefusedByFirstCheck ==
    /\ \A c \in PdfCallsSeen :
          TooLarge(c.file) =>
             /\ c.pc = "start"
             /\ c.outcome = Some(PdfError(IF ~workerOk THEN "UNAVAILABLE"
                                          ELSE IF c.file.type # PdfType THEN "INVALID_TYPE"
                                          ELSE "FILE_TOO_LARGE"))
    /\ \A c \in PdfCallsSeen :
          TooLarge(c.file) =>
             validatePDFFile(Some(c.file)) =
                [valid |-> FALSE,
                 error |-> IF c.file.type # PdfType THEN "File must be a PDF"
                           ELSE "File is too large (max 50MB)"]

(* a PDF of more than 50 MB has just been refused as too large *)
TooLargeRefusedByFirstCheckWitness ==
    /\ lastOp.op = "pdf"
    /\ TooLarge(lastOp.call.file)
    /\ lastOp.call.file.type = PdfType
    /\ lastOp.call.pc = "start"
    /\ lastOp.call.outcome = Some(PdfError("FILE_TOO_LARGE"))

(* C10: every failure of processPDFFile, whichever step raises it, is a     *)
(* PDFProcessingError whose code is one of the ten codes.                   *)
FailuresAreClassified ==
    \A c \in PdfCallsSeen :
       (IsSome(c.outcome) /\ ~Get(c.outcome).ok) =>
          /\ Get(c.outcome).cls = "PDFProcessingError"
          /\ Get(c.outcome).code \in ErrorCodes

(* the generation that has just succeeded, and what it stored *)
Parsed(kind) == lastOp.op = "generate" /\ lastOp.ok /\ lastOp.kind = kind
StoredBy(field) ==
    {Get(contents[i][field]) : i \in {j \in Indices(contents) :
                                        contents[j].id = lastOp.id /\ IsSome(contents[j][field])}}

IsNoMarker(t) == t \notin {"Q:", "A:"}
StripMarkers(str) == Trim(SelectSeq(str, IsNoMarker))
FrontOf(line) == SubSeq(line, 1, IndexOf(line, ASeparator, 1) - 1)
BackOf(line) == SubSeq(line, IndexOf(line, ASeparator, 1) + Len(ASeparator), Len(line))
(* a line with both markers that splits into a non-empty front and back *)
IsCardLine(line) ==
    /\ Includes(line, QMark) /\ Includes(line, AMark)
    /\ Includes(line, ASeparator)
    /\ Len(StripMarkers(FrontOf(line))) > 0
    /\ Len(StripMarkers(BackOf(line))) > 0
CardsOfLines(text) ==
    LET lines == SelectSeq(Split(text, NL), IsCardLine)
    IN  [i \in Indices(lines) |->
            [front |-> StripMarkers(FrontOf(lines[i])),
             back |-> StripMarkers(BackOf(lines[i])),
             difficulty |-> "medium"]]
Faces(cards) ==
    [i \in Indices(cards) |->
        [front |-> cards[i].front, back |-> cards[i].back,
         difficulty |-> cards[i].difficulty]]

(* C11: the flashcards stored by a successful generation are, in the order  *)
(* of the response's lines and with repetitions kept, one card for each     *)
(* line that has both markers and splits at " | A: " into a non-empty front *)
(* and back, its front and back without the markers and without blanks      *)
(* around them, its difficulty "medium".                                    *)
FlashcardsFollowLines ==
    Parsed("flashcards") =>
       \A cards \in StoredBy("flashcards") : Faces(cards) = CardsOfLines(lastOp.text)

(* C12: no stored flashcard has an empty front or an empty back, and a      *)
(* successful generation stores no more cards than its response has lines   *)
(* with both markers, the separator between them and text on both sides.    *)
NoEmptyFlashcardSide ==
    /\ \A i \in Indices(contents) :
          IsSome(contents[i].flashcards) =>
             \A k \in Indices(Get(contents[i].flashcards)) :
                /\ Len(Get(contents[i].flashcards)[k].front) > 0
                /\ Len(Get(contents[i].flashcards)[k].back) > 0
    /\ Parsed("flashcards") =>
          \A cards \in StoredBy("flashcards") :
             LET lines == Split(lastOp.text, NL)
                 sided(line) ==
                    /\ Includes(line, QMark) /\ Includes(line, AMark)
                    /\ Includes(line, ASeparator)
                    /\ Len(Trim(FrontOf(line))) > 0
                    /\ Len(Trim(BackOf(line))) > 0
             IN  Len(cards) <= Cardinality({i \in Indices(lines) : sided(lines[i])})

(* a response whose first line has no text after the separator and whose    *)
(* second line has no answer marker has been parsed: no card was stored     *)
NoEmptyFlashcardSideWitness ==
    /\ Parsed("flashcards")
    /\ lastOp.text = <<"Q:", " ", "w">> \o ASeparator \o NL \o <<"Q:", " ", "w">>
    /\ StoredBy("flashcards") = {<<>>}

NonBlankLines(block) == SelectSeq(Split(block, NL), IsNotBlank)
HasSixLines(block) == Len(NonBlankLines(block)) >= 6
(* the blocks of a response that the parser looks at, and those of them    *)
(* that qualify                                                            *)
BlocksRead(text) ==
    LET blocks == SelectSeq(Split(text, QMark), IsNotBlank)
    IN  SubSeq(blocks, 1, Min(5, Len(blocks)))
Qualifying(text) == SelectSeq(BlocksRead(text), HasSixLines)
(* the line "Correct: X" of a block, if it has one *)
NamesAnswer(block) == Includes(block, <<"Correct:", " ">>)
AnswerNamed(block) == block[IndexOf(block, <<"Correct:", " ">>, 1) + 2]
HasNoAnswerLine(block) == \A i \in Indices(block) : block[i] \notin {"Correct:", "correct:"}

(* C13: a stored quiz never has more than five questions.                  *)
AtMostFiveQuestions ==
    \A i \in Indices(contents) :
       IsSome(contents[i].quiz) => Len(Get(contents[i].quiz)) <= 5

(* a response of six blocks in the prompt's format has been parsed: five    *)
(* questions were stored                                                    *)
AtMostFiveQuestionsWitness ==
    /\ Parsed("quiz")
    /\ Len(SelectSeq(Split(lastOp.text, QMark), HasSixLines)) = 6
    /\ \E quiz \in StoredBy("quiz") : Len(quiz) = 5

(* C14: for every qualifying block with a line "Correct: X", the stored     *)
(* question's correctAnswer is the zero-based index of X among A, B, C, D.  *)
CorrectAnswerIsNamedLetter ==
    Parsed("quiz") =>
       \A quiz \in StoredBy("quiz") :
          /\ Len(quiz) = Len(Qualifying(lastOp.text))
          /\ \A k \in Indices(quiz) :
                NamesAnswer(Qualifying(lastOp.text)[k]) =>
                   quiz[k].correctAnswer = LetterIndex(AnswerNamed(Qualifying(lastOp.text)[k]))

QuestionsAreWellFormed ==
    /\ \A i \in Indices(contents) :
          IsSome(contents[i].quiz) =>
             \A k \in Indices(Get(contents[i].quiz)) :
                /\ Len(Get(contents[i].quiz)[k].options) = 4
                /\ Get(contents[i].quiz)[k].correctAnswer \in 0..3
    /\ Parsed("quiz") =>
          \A quiz \in StoredBy("quiz") :
             Len(quiz) = Len(SelectSeq(BlocksRead(lastOp.text), HasSixLines))

(* a response of a block cut short after its options and a block in the     *)
(* prompt's format has been parsed: one question was stored                 *)
QuestionsAreWellFormedWitness ==
    /\ Parsed("quiz")
    /\ Len(BlocksRead(lastOp.text)) = 2
    /\ Len(NonBlankLines(BlocksRead(lastOp.text)[1])) = 5
    /\ HasSixLines(BlocksRead(lastOp.text)[2])
    /\ \E quiz \in StoredBy("quiz") : Len(quiz) = 1 /\ Len(quiz[1].options) = 4

(* C17: checkConnection never rejects; it returns true exactly when its     *)
(* request ended with a success status, false when the request failed, was  *)
(* answered with another status or was aborted (and when it was skipped),   *)
(* and isConnected is the value returned.                                   *)
ProbeReturnsConnected ==
    lastOp.op = "checkConnection" =>
       /\ ~lastOp.rejected
       /\ lastOp.returned = (lastOp.outcome = "ok")
       /\ isConnected = lastOp.returned

(* a probe has just been aborted after a listing had found models *)
ProbeReturnsConnectedWitness ==
    /\ lastOp.op = "checkConnection"
    /\ lastOp.outcome = "abort"
    /\ ~lastOp.returned /\ ~lastOp.rejected
    /\ ~isConnected
    /\ models # <<>>

(* C18: after loadModels has completed with a failure (network error,       *)
(* abort, non-success status, unreadable body) the model list is empty and  *)
(* isConnected is false.                                                    *)
LoadFailureClearsModels ==
    (lastOp.op = "loadModels" /\ lastOp.outcome \notin {"ok", "skipped"}) =>
       /\ models = <<>>
       /\ ~isConnected

(* the fixed texts, kind by kind *)
Placeholder(kind) ==
    CASE kind = "summary" -> DemoSummary
      [] kind = "flashcards" -> DemoFlashcards
      [] kind = "quiz" -> DemoQuiz

(* C19: in demonstration mode isConnected is false in every state, no probe, *)
(* listing or generation has a request pending, and every generation         *)
(* succeeds with the fixed text of its kind and stores what that text gives. *)
DemoModeStaysOffline ==
    isDeployed =>
       /\ ~isConnected
       /\ ~checks
       /\ loads = NoLoads
       /\ gens = <<>>
       /\ lastOp.op = "generate" =>
             /\ lastOp.ok
             /\ lastOp.text = Placeholder(lastOp.kind)
             /\ \A i \in Indices(contents) :
                   contents[i].id = lastOp.id =>
                      contents[i][lastOp.kind] =
                         GenerationUpdates(lastOp.kind, lastOp.id,
                                           Placeholder(lastOp.kind))[lastOp.kind]

(* in demonstration mode a quiz has just been generated from the fixed text *)
DemoModeStaysOfflineWitness ==
    /\ isDeployed
    /\ lastOp.op = "generate" /\ lastOp.kind = "quiz"
    /\ \E quiz \in StoredBy("quiz") : Len(quiz) = 2
    /\ ~isConnected

(* C20: after a probe, a listing or a call of generateText has completed,   *)
(* isConnected is true if that call succeeded and false if it failed.       *)
ConnectedFollowsLastCall ==
    /\ lastOp.op = "checkConnection" => isConnected = lastOp.returned
    /\ lastOp.op = "loadModels" => isConnected = (lastOp.outcome = "ok")
    /\ (lastOp.op = "generate" /\ ~isDeployed) => isConnected = lastOp.ok

(* currentContent is none or equals, field for field, an entry of the      *)
(* collection (which then has its id)                                       *)
CurrentIsAnEntry ==
    IsSome(currentContent) => \E i \in Indices(contents) : contents[i] = Get(currentContent)

(* C21: in every reachable state currentContent is none or equal, field for *)
(* field, to the collection entry of its id, and the step that completes a  *)
(* generation for item X changes no entry of another id and leaves          *)
(* currentContent alone unless its id is that of X.                         *)
GenerationMergesIntoItsItem ==
    [][/\ CurrentIsAnEntry'
       /\ (lastOp'.op = "generate" /\ lastOp'.ok) =>
             /\ \A i \in Indices(contents) :
                   contents[i].id # lastOp'.id => contents'[i] = contents[i]
             /\ currentContent' # currentContent =>
                   Get(currentContent').id = lastOp'.id]_vars

(* a generation started on the item of this id has not ended yet *)
Outstanding(id) == \E k \in Indices(gens) : gens[k].item.id = id

(* C22: while a generation started on an item is outstanding and the        *)
(* dashboard shows that item, the generate controls are disabled            *)
(* (isGenerating is true), whatever pages the user has visited meanwhile.   *)
ControlsDisabledWhileGenerating ==
    (route = "dashboard" /\ IsSome(currentContent)
        /\ Outstanding(Get(currentContent).id)) => isGenerating

(* a file dropped on the mounted home page is still being processed *)
IngestionOutstanding ==
    \E k \in Indices(pdfCalls) :
       /\ pdfCalls[k].caller = "home"
       /\ pdfCalls[k].live
       /\ ~IsSome(pdfCalls[k].outcome)

(* C23: while an ingestion is outstanding on the home page, isProcessing is *)
(* set and every ingestion trigger (the dropzone, the Process buttons) is   *)
(* disabled.                                                                *)
TriggersDisabledWhileProcessing ==
    (route = "home" /\ IngestionOutstanding) =>
       /\ isProcessing
       /\ ~ButtonsEnabled
       /\ ~DropzoneEnabled

RECURSIVE TextOfTurns(_)
(* the texts of the pages that gave some, each followed by a blank line *)
TextOfTurns(turns) ==
    IF Len(turns) = 0 THEN <<>>
    ELSE (IF Len(Head(turns).text) > 0 THEN Head(turns).text \o <<"\n", "\n">> ELSE <<>>)
         \o TextOfTurns(Tail(turns))

GaveText(c) == \E k \in Indices(c.turns) : Len(c.turns[k].text) > 0

(* C24: the loop takes the pages in ascending order whether or not earlier  *)
(* pages failed; once it is over every page up to the limit has had its    *)
(* turn and the text gathered is that of the pages that succeeded; the     *)
(* task then succeeds with that text if some page gave text (and the       *)
(* caller's callback does not throw), and fails with NO_TEXT if none did.  *)
FailedPagesAreSkipped ==
    \A c \in PdfCallsSeen :
       /\ \A k \in Indices(c.turns) : c.turns[k].pageNum = k
       /\ c.pc = "page" => Len(c.turns) = c.pageNum - 1
       /\ c.pc = "end" =>
             /\ Len(c.turns) = c.limit
             /\ c.fullText = TextOfTurns(c.turns)
             /\ (IsSome(c.outcome) /\ ~c.timerFired) =>
                   /\ Get(c.outcome).ok => Get(c.outcome).text = Trim(TextOfTurns(c.turns))
                   /\ (GaveText(c) /\ c.cb # "throws") => Get(c.outcome).ok
                   /\ (~GaveText(c) /\ c.cb # "throws") => Get(c.outcome) = PdfError("NO_TEXT")

(* page 1 of a two-page document failed, page 2 gave text, and the call     *)
(* has just succeeded with the text of page 2                               *)
FailedPagesAreSkippedWitness ==
    /\ lastOp.op = "pdf"
    /\ lastOp.call.pc = "end"
    /\ Len(lastOp.call.turns) = 2
    /\ ~lastOp.call.turns[1].extracted
    /\ lastOp.call.turns[2].text = <<"a">>
    /\ IsSome(lastOp.call.outcome)
    /\ Get(lastOp.call.outcome).ok
    /\ Get(lastOp.call.outcome).text = <<"a">>

(* C25: once the task of a call is past its loop (the caller's callback     *)
(* never throwing), every page it obtained has been cleaned up and the      *)
(* document has been destroyed.                                             *)
ResourcesReleased ==
    \A c \in PdfCallsSeen :
       (c.pc = "end" /\ c.cb # "throws") =>
          /\ c.opened \subseteq c.cleaned
          /\ c.destroyed

(* C26: the values a call reports (its callback never throwing) never       *)
(* decrease; they are 5, 15, 25 up to the load, within 30..90 for the       *)
(* pages, then 95; and 100 is reported last, by every call that succeeds    *)
(* and by no call that fails.                                               *)
ProgressIsMonotone ==
    \A c \in PdfCallsSeen :
       c.cb = "returns" =>
          /\ \A k \in 1..(Len(c.reported) - 1) : c.reported[k] <= c.reported[k + 1]
          /\ \A k \in Indices(c.reported) :
                /\ c.reported[k] \in {5, 15, 25} \cup 30..90 \cup {95, 100}
                /\ c.reported[k] = 100 =>
                      /\ k = Len(c.reported)
                      /\ IsSome(c.outcome) /\ Get(c.outcome).ok
          /\ (IsSome(c.outcome) /\ Get(c.outcome).ok) => c.reported[Len(c.reported)] = 100

(* C27: the items of the collection have pairwise distinct ids, however     *)
(* close in time they were added.                                           *)
IdsAreDistinct ==
    \A i \in Indices(contents), j \in Indices(contents) :
       contents[i].id = contents[j].id => i = j

(* a call that has ended with TIMEOUT while its task goes on *)
Abandoned(c) == c.timerFired /\ c.outcome = Some(PdfError("TIMEOUT"))

(* C28: while the task of a call that ended with TIMEOUT goes on, it        *)
(* reports no further progress value and the caller's progress, reset to 0  *)
(* when the call ended, does not change.                                    *)
AbandonedTaskIsSilent ==
    [][\A i \in Indices(pdfCalls) :
          Abandoned(pdfCalls[i]) =>
             /\ progress' = progress
             /\ \A c \in PdfCallsSeen' :
                   Abandoned(c) => c.reported = pdfCalls[i].reported]_vars

(* C29: every generation that is started ends: whenever the dashboard is   *)
(* generating, it later is not, and its progress is 0 again.                *)
GenerationEnds ==
    isGenerating ~> (~isGenerating /\ generationProgress = 0)

(* C30: when saveConfiguration has saved a URL, the connection check and   *)
(* the model load it issues go to the URL it saved.                        *)
SaveUsesNewUrl ==
    (lastOp.op = "saveConfiguration" /\ lastOp.request \in {"checkConnection", "loadModels"})
        => lastOp.target = lastOp.saved

====
